---- MODULE Spec2Model ----
(***************************************************************************)
(* Bybit L2 order-book maintenance: BybitBookUpdater (sequence validation  *)
(* and application of snapshot / delta updates to a local OrderBook).      *)
(*                                                                         *)
(* Source: barter-data/src/exchange/bybit/book/l2.rs                       *)
(*         barter-data/src/exchange/bybit/book/mod.rs                      *)
(*         barter-data/src/exchange/bybit/message.rs (deserializers)       *)
(*         barter-data/src/exchange/okx/message.rs, okx/book/mod.rs        *)
(*         barter-data/src/exchange/bybit/channel.rs (channel names)       *)
(*         src/portfolio/risk.rs (DefaultRisk)                             *)
(* The transformer that routes frames to the updaters of one connection    *)
(* is not part of the sources at hand either; it follows the               *)
(* specification text.                                                     *)
(* OrderBook / OrderBookSide (crate::subscription::book) are not part of   *)
(* the sources at hand; they are modelled from the specification text.     *)
(*                                                                         *)
(* update ids are i64 in the source; the ids explored here are small, far  *)
(* from the i64 limits, so `last_update_id + 1` never overflows.  Prices   *)
(* and amounts (f64 in the source) are small naturals.                     *)
(***************************************************************************)
EXTENDS Integers, Sequences, FiniteSets, TLC

\* ---------------------------------------------------------------- bounds
\* largest update id an exchange message carries in the explored runs
MaxId == 3
\* number of negative update ids explored (ids range over -NegIds..MaxId)
NegIds == 1
\* largest price of a level
MaxPrice == 1
\* largest amount of a level (0 means "delete the level")
MaxAmount == 1
\* largest number of levels per side in one snapshot / delta payload
MaxLevels == 1
\* largest exchange timestamp
MaxTime == 1
\* deltas are fed only while updates_processed is below this cap
MaxUpdates == 2

\* the same three for the specification of single updates on larger books
BookMaxPrice == 2
BookMaxAmount == 2
BookMaxLevels == 2

UpdateIds == (0 - NegIds)..MaxId
Prices == 1..MaxPrice
Amounts == 0..MaxAmount
Times == 0..MaxTime

\* BybitLevel { price, amount }
BybitLevel == [price : Prices, amount : Amounts]

RECURSIVE SeqsUpTo(_, _)
SeqsUpTo(S, n) ==
    IF n = 0 THEN {<<>>}
    ELSE LET shorter == SeqsUpTo(S, n - 1)
         IN  shorter \cup {Append(s, x) : s \in {t \in shorter : Len(t) = n - 1}, x \in S}

LevelLists == SeqsUpTo(BybitLevel, MaxLevels)

Max(a, b) == IF a >= b THEN a ELSE b

\* ------------------------------------------- OrderBookSide (spec 4.1)
\* price priority on a side: bids descending, asks ascending
Before(side, p, q) == IF side = "Buy" THEN p > q ELSE p < q

HasPrice(levels, p) == \E i \in 1..Len(levels) : levels[i].price = p

\* insert a level whose price is absent, preserving the side's order
InsertSorted(side, levels, l) ==
    SelectSeq(levels, LAMBDA x : Before(side, x.price, l.price))
        \o <<l>>
        \o SelectSeq(levels, LAMBDA x : Before(side, l.price, x.price))

\* upsert of one level: amount == 0 removes, otherwise replace or insert
upsert_single(side, levels, l) ==
    IF HasPrice(levels, l.price)
    THEN IF l.amount = 0
         THEN SelectSeq(levels, LAMBDA x : x.price # l.price)
         ELSE [i \in 1..Len(levels) |->
                  IF levels[i].price = l.price THEN l ELSE levels[i]]
    ELSE IF l.amount = 0
         THEN levels
         ELSE InsertSorted(side, levels, l)

\* OrderBookSide::upsert(levels): the input levels are applied in order
RECURSIVE upsert(_, _, _)
upsert(side, levels, input) ==
    IF input = <<>> THEN levels
    ELSE upsert(side, upsert_single(side, levels, Head(input)), Tail(input))

\* OrderBookSide::new(side, levels): filter amount == 0, sort per side,
\* deduplicate on price (last wins)
OrderBookSide_new(side, input) ==
    upsert(side, <<>>, SelectSeq(input, LAMBDA x : x.amount # 0))

\* OrderBook::snapshot(): deep copy of the book for emission
snapshot(book) == book

\* ------------------------------------------------------ l2.rs / mod.rs
\* BybitOrderBookInner::default() wrapped in BybitPayload::default(); the
\* payload time is Utc::now()
DefaultSnapshot(now) ==
    [kind |-> "snapshot", time |-> now, update_id |-> 0, bids |-> <<>>, asks |-> <<>>]

\* the conversion with the asks built as a Side::Buy side
OrderBook_from_wrong_side(snap) ==
    [last_update_time |-> snap.time,
     bids |-> OrderBookSide_new("Buy", snap.bids),
     asks |-> OrderBookSide_new("Buy", snap.asks)]

\* the conversion that keeps a side's payload levels as they come when the
\* payload lists a zero amount
OrderBook_from_keeps_zero(snap) ==
    [last_update_time |-> snap.time,
     bids |-> IF \E i \in 1..Len(snap.bids) : snap.bids[i].amount = 0
              THEN snap.bids ELSE OrderBookSide_new("Buy", snap.bids),
     asks |-> IF \E i \in 1..Len(snap.asks) : snap.asks[i].amount = 0
              THEN snap.asks ELSE OrderBookSide_new("Sell", snap.asks)]

\* impl From<BybitOrderBookL2Snapshot> for OrderBook
OrderBook_from(snap) ==
    [last_update_time |-> snap.time,
     bids |-> OrderBookSide_new("Buy", snap.bids),
     asks |-> OrderBookSide_new("Sell", snap.asks)]

\* BybitBookUpdater::new()
BybitBookUpdater_new == [updates_processed |-> 0, last_update_id |-> 0]

\* BybitBookUpdater::is_first_update
is_first_update(self) == self.updates_processed = 0

NoError == [tag |-> "Ok", prev_last_update_id |-> 0, first_update_id |-> 0]

\* DataError::InvalidSequence built with `.max(0) as u64` on both fields
InvalidSequence(prev, first) ==
    [tag |-> "InvalidSequence",
     prev_last_update_id |-> Max(prev, 0),
     first_update_id |-> Max(first, 0)]

\* BybitBookUpdater::validate_snapshot_update: nothing to validate
validate_snapshot_update(self, snap) == NoError

\* the same error without the clamp at 0 (fields carry the raw i64 values)
validate_delta_update_unclamped(self, delta) ==
    IF delta.update_id = 1
       \/ (~is_first_update(self) /\ delta.update_id # self.last_update_id + 1)
    THEN [tag |-> "InvalidSequence",
          prev_last_update_id |-> self.last_update_id,
          first_update_id |-> delta.update_id]
    ELSE NoError

\* validation that forgets the reserved update_id == 1
validate_delta_update_no_reserved(self, delta) ==
    IF ~is_first_update(self) /\ delta.update_id # self.last_update_id + 1
    THEN InvalidSequence(self.last_update_id, delta.update_id)
    ELSE NoError

\* validation that checks the sequence on the first delta too
validate_delta_update_always_sequential(self, delta) ==
    IF delta.update_id = 1
    THEN InvalidSequence(self.last_update_id, delta.update_id)
    ELSE IF delta.update_id # self.last_update_id + 1
         THEN InvalidSequence(self.last_update_id, delta.update_id)
         ELSE NoError

\* BybitBookUpdater::validate_delta_update
validate_delta_update(self, delta) ==
    IF delta.update_id = 1
    THEN InvalidSequence(self.last_update_id, delta.update_id)
    ELSE IF ~is_first_update(self) /\ delta.update_id # self.last_update_id + 1
         THEN InvalidSequence(self.last_update_id, delta.update_id)
         ELSE NoError

NoBook == [last_update_time |-> 0, bids |-> <<>>, asks |-> <<>>]

\* Result<Option<OrderBook>, DataError> of update(): tag is "Some" for
\* Ok(Some(book)), "Err" for Err(error)
Ret(tag, book, err) ==
    [tag |-> tag, book |-> book, error |-> err.tag,
     prev_last_update_id |-> err.prev_last_update_id,
     first_update_id |-> err.first_update_id]

\* Delta arm body with the payload sides crossed over
apply_delta_swapped_sides(book, delta) ==
    [last_update_time |-> delta.time,
     bids |-> upsert("Buy", book.bids, delta.asks),
     asks |-> upsert("Sell", book.asks, delta.bids)]

\* Delta arm body that walks each payload side from its last level to its first
apply_delta_reversed(book, delta) ==
    LET Rev(q) == [i \in 1..Len(q) |-> q[Len(q) + 1 - i]]
    IN  [last_update_time |-> delta.time,
         bids |-> upsert("Buy", book.bids, Rev(delta.bids)),
         asks |-> upsert("Sell", book.asks, Rev(delta.asks))]

\* Delta arm body after validation: time, bids, asks are applied in place
apply_delta(book, delta) ==
    [last_update_time |-> delta.time,
     bids |-> upsert("Buy", book.bids, delta.bids),
     asks |-> upsert("Sell", book.asks, delta.asks)]

\* update() that applies a delta before validating it
update_apply_before_validate(self, book, upd) ==
    IF upd.kind = "snapshot"
    THEN [updater |-> [self EXCEPT !.last_update_id = upd.update_id],
          book |-> OrderBook_from(upd),
          ret |-> Ret("Some", snapshot(OrderBook_from(upd)), NoError)]
    ELSE LET err == validate_delta_update(self, upd)
             applied == apply_delta(book, upd)
         IN  IF err.tag # "Ok"
             THEN [updater |-> self, book |-> applied, ret |-> Ret("Err", NoBook, err)]
             ELSE [updater |-> [updates_processed |-> self.updates_processed + 1,
                                last_update_id |-> upd.update_id],
                   book |-> applied,
                   ret |-> Ret("Some", snapshot(applied), NoError)]

\* update() whose snapshot arm merges the snapshot into the existing book
update_snapshot_merges(self, book, upd) ==
    IF upd.kind = "snapshot"
    THEN LET merged == apply_delta(book, upd)
         IN  [updater |-> [self EXCEPT !.last_update_id = upd.update_id],
              book |-> merged,
              ret |-> Ret("Some", snapshot(merged), NoError)]
    ELSE LET err == validate_delta_update(self, upd)
             applied == apply_delta(book, upd)
         IN  IF err.tag # "Ok"
             THEN [updater |-> self, book |-> book, ret |-> Ret("Err", NoBook, err)]
             ELSE [updater |-> [updates_processed |-> self.updates_processed + 1,
                                last_update_id |-> upd.update_id],
                   book |-> applied,
                   ret |-> Ret("Some", snapshot(applied), NoError)]

\* update() whose delta arm forgets to count the processed delta
update_no_count(self, book, upd) ==
    IF upd.kind = "snapshot"
    THEN [updater |-> [self EXCEPT !.last_update_id = upd.update_id],
          book |-> OrderBook_from(upd),
          ret |-> Ret("Some", snapshot(OrderBook_from(upd)), NoError)]
    ELSE LET err == validate_delta_update(self, upd)
             applied == apply_delta(book, upd)
         IN  IF err.tag # "Ok"
             THEN [updater |-> self, book |-> book, ret |-> Ret("Err", NoBook, err)]
             ELSE [updater |-> [updates_processed |-> self.updates_processed,
                                last_update_id |-> upd.update_id],
                   book |-> applied,
                   ret |-> Ret("Some", snapshot(applied), NoError)]

\* update() that moves last_update_id to the id of a delta it rejects
update_error_moves_id(self, book, upd) ==
    IF upd.kind = "snapshot"
    THEN [updater |-> [self EXCEPT !.last_update_id = upd.update_id],
          book |-> OrderBook_from(upd),
          ret |-> Ret("Some", snapshot(OrderBook_from(upd)), NoError)]
    ELSE LET err == validate_delta_update(self, upd)
             applied == apply_delta(book, upd)
         IN  IF err.tag # "Ok"
             THEN [updater |-> [self EXCEPT !.last_update_id = upd.update_id],
                   book |-> book, ret |-> Ret("Err", NoBook, err)]
             ELSE [updater |-> [updates_processed |-> self.updates_processed + 1,
                                last_update_id |-> upd.update_id],
                   book |-> applied,
                   ret |-> Ret("Some", snapshot(applied), NoError)]

\* update() whose snapshot arm leaves last_update_id as it was
update_snapshot_keeps_id(self, book, upd) ==
    IF upd.kind = "snapshot"
    THEN [updater |-> self,
          book |-> OrderBook_from(upd),
          ret |-> Ret("Some", snapshot(OrderBook_from(upd)), NoError)]
    ELSE LET err == validate_delta_update(self, upd)
             applied == apply_delta(book, upd)
         IN  IF err.tag # "Ok"
             THEN [updater |-> self, book |-> book, ret |-> Ret("Err", NoBook, err)]
             ELSE [updater |-> [updates_processed |-> self.updates_processed + 1,
                                last_update_id |-> upd.update_id],
                   book |-> applied,
                   ret |-> Ret("Some", snapshot(applied), NoError)]

\* update() whose snapshot arm counts the snapshot as a processed update
update_snapshot_counts(self, book, upd) ==
    IF upd.kind = "snapshot"
    THEN [updater |-> [updates_processed |-> self.updates_processed + 1,
                       last_update_id |-> upd.update_id],
          book |-> OrderBook_from(upd),
          ret |-> Ret("Some", snapshot(OrderBook_from(upd)), NoError)]
    ELSE LET err == validate_delta_update(self, upd)
             applied == apply_delta(book, upd)
         IN  IF err.tag # "Ok"
             THEN [updater |-> self, book |-> book, ret |-> Ret("Err", NoBook, err)]
             ELSE [updater |-> [updates_processed |-> self.updates_processed + 1,
                                last_update_id |-> upd.update_id],
                   book |-> applied,
                   ret |-> Ret("Some", snapshot(applied), NoError)]

\* update() whose snapshot arm copies the book for emission before it
\* replaces it
update_snapshot_emits_stale(self, book, upd) ==
    IF upd.kind = "snapshot"
    THEN [updater |-> [self EXCEPT !.last_update_id = upd.update_id],
          book |-> OrderBook_from(upd),
          ret |-> Ret("Some", snapshot(book), NoError)]
    ELSE LET err == validate_delta_update(self, upd)
             applied == apply_delta(book, upd)
         IN  IF err.tag # "Ok"
             THEN [updater |-> self, book |-> book, ret |-> Ret("Err", NoBook, err)]
             ELSE [updater |-> [updates_processed |-> self.updates_processed + 1,
                                last_update_id |-> upd.update_id],
                   book |-> applied,
                   ret |-> Ret("Some", snapshot(applied), NoError)]

\* OrderBookUpdater::update for BybitBookUpdater: the new updater, the new
\* live book and the returned value
update(self, book, upd) ==
    IF upd.kind = "snapshot"
    THEN LET err == validate_snapshot_update(self, upd)
         IN  IF err.tag # "Ok"
             THEN [updater |-> self, book |-> book, ret |-> Ret("Err", NoBook, err)]
             ELSE [updater |-> [self EXCEPT !.last_update_id = upd.update_id],
                   book |-> OrderBook_from(upd),
                   ret |-> Ret("Some", snapshot(OrderBook_from(upd)), NoError)]
    ELSE LET err == validate_delta_update(self, upd)
             applied == apply_delta(book, upd)
         IN  IF err.tag # "Ok"
             THEN [updater |-> self, book |-> book, ret |-> Ret("Err", NoBook, err)]
             ELSE [updater |-> [updates_processed |-> self.updates_processed + 1,
                                last_update_id |-> upd.update_id],
                   book |-> applied,
                   ret |-> Ret("Some", snapshot(applied), NoError)]

\* ------------------------------------------------ text and decoding
\* Text is a sequence of atoms: "." and "|" stand for themselves, every
\* other atom for a run of characters holding neither of them.
TopicAtoms == {"orderbook", "publicTrade", "kline", "50", "A", "B", "."}
\* longest topic explored, in atoms
MaxTopicLen == 5
Topics == SeqsUpTo(TopicAtoms, MaxTopicLen)
\* an order book topic followed by one more segment
ExtraSegmentTopics == {<<"orderbook", ".", "50", ".", "A", ".", "B">>}

\* str::split('.'): the maximal runs without ".", empty runs included
RECURSIVE split(_)
split(s) ==
    IF s = <<>> THEN << <<>> >>
    ELSE LET rest == split(Tail(s))
         IN  IF Head(s) = "."
             THEN << <<>> >> \o rest
             ELSE << <<Head(s)>> \o rest[1] >> \o Tail(rest)

\* BybitChannel::TRADES
BybitChannel_TRADES == "publicTrade"
\* BybitChannel::ORDER_BOOK_L1, BybitChannel::ORDER_BOOK_L2
BybitChannel_ORDER_BOOK_L1 == <<"orderbook", ".", "1">>
BybitChannel_ORDER_BOOK_L2 == <<"orderbook", ".", "200">>
\* Identifier<BybitChannel> for Subscription<Bybit<Server>, Instrument, Kind>
Subscription_id(kind) ==
    CASE kind = "PublicTrades" -> <<BybitChannel_TRADES>>
      [] kind = "OrderBooksL1" -> BybitChannel_ORDER_BOOK_L1
      [] kind = "OrderBooksL2" -> BybitChannel_ORDER_BOOK_L2
\* the depth D an order book channel is named after
Depth(channel) ==
    CASE channel[3] = "1" -> 1
      [] channel[3] = "50" -> 50
      [] channel[3] = "200" -> 200

DecodeError == [tag |-> "Err", key |-> <<>>]
OkKey(k) == [tag |-> "Ok", key |-> k]

\* a string of a JSON document as a deserializer hands it over: its text,
\* and whether the text can be borrowed from the input. A string written
\* with an escape sequence, or held by a deserializer that owns its strings,
\* cannot be borrowed
JsonString(text, escaped) == [text |-> text, borrowed |-> ~escaped]
\* the string field `name` of a JSON object; obj.escaped holds the names of
\* the fields that are written with an escape sequence
Field(obj, name) == JsonString(obj[name], name \in obj.escaped)
\* <&str as Deserialize>::deserialize: a borrowed string or an error
de_borrowed_str(js) ==
    IF js.borrowed
    THEN [tag |-> "Ok", value |-> js.text]
    ELSE [tag |-> "Err", value |-> <<>>]

\* de_message_subscription_id: the topic as a borrowed string, then a match
\* on its first three tokens
de_message_subscription_id(input) ==
    LET tokens == split(input.text)
        n == Len(tokens)
    IN  IF de_borrowed_str(input).tag = "Err"
        THEN DecodeError
        ELSE IF tokens[1] = <<"publicTrade">> /\ n = 2
        THEN OkKey(<<BybitChannel_TRADES, "|">> \o tokens[2])
        ELSE IF tokens[1] = <<"orderbook">> /\ n >= 3
        THEN OkKey(<<"orderbook", ".">> \o tokens[2] \o <<"|">> \o tokens[3])
        ELSE DecodeError

\* type tags a frame may carry
TypeTags == {"snapshot", "delta", "Snapshot", ""}

\* <Snapshot as ValidateType>::validate_type, <Delta as ValidateType>::validate_type
validate_type(V, val) ==
    IF V = "Snapshot" THEN val = "snapshot" ELSE val = "delta"

\* de_message_type without the test of the tag
de_message_type_any(V, input) ==
    IF de_borrowed_str(input).tag = "Err"
    THEN [tag |-> "Err", value |-> ""]
    ELSE [tag |-> "Ok", value |-> input.text]

\* de_message_type::<D, V>
de_message_type(V, input) ==
    IF de_borrowed_str(input).tag = "Err"
    THEN [tag |-> "Err", value |-> ""]
    ELSE IF ~validate_type(V, input.text)
    THEN [tag |-> "Err", value |-> ""]
    ELSE [tag |-> "Ok", value |-> input.text]

NoPayload ==
    [subscription_id |-> <<>>, type |-> "", time |-> 0, update_id |-> 0,
     bids |-> <<>>, asks |-> <<>>]

\* Deserialize for BybitPayload<BybitOrderBookInner, V>
de_BybitPayload(V, frame) ==
    LET id == de_message_subscription_id(Field(frame, "topic"))
        ty == de_message_type(V, Field(frame, "type"))
    IN  IF id.tag = "Err" \/ ty.tag = "Err"
        THEN [tag |-> "Err", variant |-> "None", payload |-> NoPayload]
        ELSE [tag |-> "Ok", variant |-> V,
              payload |-> [subscription_id |-> id.key, type |-> ty.value,
                           time |-> frame.time, update_id |-> frame.update_id,
                           bids |-> frame.bids, asks |-> frame.asks]]

\* Deserialize for BybitBookUpdate (untagged): Snapshot is tried first,
\* then Delta
de_BybitBookUpdate(frame) ==
    LET s == de_BybitPayload("Snapshot", frame)
    IN  IF s.tag = "Ok" THEN s ELSE de_BybitPayload("Delta", frame)

\* BybitPayload::validate_type on the payload of a decoded update
payload_validate_type(d) == validate_type(d.variant, d.payload.type)

\* the decoded update as update() receives it
AsUpdate(d) ==
    [kind |-> IF d.variant = "Snapshot" THEN "snapshot" ELSE "delta",
     time |-> d.payload.time, update_id |-> d.payload.update_id,
     bids |-> d.payload.bids, asks |-> d.payload.asks]

\* ---------------------------------------------------------------- OKX
OkxAtoms == {"books", "trades", "BTC-USDT", "|"}
\* longest OKX channel or instrument id explored, in atoms
MaxOkxLen == 2
OkxTexts == SeqsUpTo(OkxAtoms, MaxOkxLen)

\* ExchangeSub::from((channel, market)).id()
ExchangeSub_id(channel, market) == channel \o <<"|">> \o market

\* de_ob_l2_subscription_id: the market as a borrowed string, then the id of
\* the ExchangeSub of ORDER_BOOK_L2 and the market
de_ob_l2_subscription_id(input) ==
    LET market == de_borrowed_str(input)
    IN  IF market.tag = "Err"
        THEN DecodeError
        ELSE OkKey(ExchangeSub_id(BybitChannel_ORDER_BOOK_L2, market.value))

\* de_okx_message_arg_as_subscription_id: Arg borrows its two strings
de_okx_message_arg_as_subscription_id(arg) ==
    LET channel == de_borrowed_str(Field(arg, "channel"))
        inst_id == de_borrowed_str(Field(arg, "inst_id"))
    IN  IF channel.tag = "Err" \/ inst_id.tag = "Err"
        THEN DecodeError
        ELSE OkKey(ExchangeSub_id(channel.value, inst_id.value))

\* From<OxkLevel> for Level
Level_from(level) == [price |-> level.price, amount |-> level.amount]

\* Vec::pop: the last element, None for an empty vector
Vec_pop(v) ==
    IF v = <<>> THEN [tag |-> "None", value |-> [price |-> 0, amount |-> 0]]
    ELSE [tag |-> "Some", value |-> v[Len(v)]]

\* From<(ExchangeId, InstrumentId, OkxOrderBook)> for MarketIter<_, OrderBookL1>:
\* one event per element of data; Option::unwrap panics on None
OkxOrderBookL1_from(data) ==
    IF \E i \in 1..Len(data) :
          Vec_pop(data[i].bids).tag = "None" \/ Vec_pop(data[i].asks).tag = "None"
    THEN [tag |-> "Panic", events |-> <<>>]
    ELSE [tag |-> "Ok",
          events |-> [i \in 1..Len(data) |->
                        [exchange_time |-> data[i].ts,
                         last_update_time |-> data[i].ts,
                         best_bid |-> Level_from(Vec_pop(data[i].bids).value),
                         best_ask |-> Level_from(Vec_pop(data[i].asks).value)]]]

\* ------------------------------------------------------ Bybit levels
\* the two strings of a level as a frame carries them
NumberTexts == {"1", "0", "-1", "NaN", "x"}

\* de_str into f64: the text parsed with f64's FromStr, which reads a sign
\* and the name NaN; the NaN value is written "NaN"
de_str_f64(text) ==
    CASE text = "1" -> [tag |-> "Ok", value |-> 1]
      [] text = "0" -> [tag |-> "Ok", value |-> 0]
      [] text = "-1" -> [tag |-> "Ok", value |-> -1]
      [] text = "NaN" -> [tag |-> "Ok", value |-> "NaN"]
      [] OTHER -> [tag |-> "Err", value |-> 0]

\* Deserialize for BybitLevel followed by From<BybitLevel> for Level
de_BybitLevel(pair) ==
    LET p == de_str_f64(pair.price)
        a == de_str_f64(pair.amount)
    IN  IF p.tag = "Err" \/ a.tag = "Err"
        THEN [tag |-> "Err", price |-> 0, amount |-> 0]
        ELSE [tag |-> "Ok", price |-> p.value, amount |-> a.value]

\* ------------------------------------------- Bybit trades and responses
\* BybitResponse.ret_msg values a frame may carry
ReturnMessages == {"pong", "subscribe", ""}
\* most trades in the data array of one frame
MaxTrades == 2
BybitTradeInner == [price : {1}, amount : {1}]

\* frames on a trade connection, by the fields they carry: a response
\* (success, ret_msg), a trade payload (topic, type, ts, data), anything else
MessageFrames ==
    [shape : {"response"}, success : BOOLEAN, ret_msg : ReturnMessages]
    \cup [shape : {"trade"},
          topic : {<<"publicTrade", ".", "A">>, <<"publicTrade">>},
          escaped : SUBSET {"topic"},
          time : {1}, data : SeqsUpTo(BybitTradeInner, MaxTrades)]
    \cup [shape : {"other"}]

NoMessage == [tag |-> "Err", variant |-> "None"]

\* Deserialize for BybitMessage<BybitTrade> (untagged): Response is tried
\* first, then Event
de_BybitMessage(frame) ==
    IF frame.shape = "response"
    THEN [tag |-> "Ok", variant |-> "Response",
          success |-> frame.success, ret_msg |-> frame.ret_msg]
    ELSE IF frame.shape = "trade"
            /\ de_message_subscription_id(Field(frame, "topic")).tag = "Ok"
    THEN [tag |-> "Ok", variant |-> "Event",
          subscription_id |-> de_message_subscription_id(Field(frame, "topic")).key,
          time |-> frame.time, data |-> frame.data]
    ELSE NoMessage

\* From<(ExchangeId, InstrumentId, BybitTrade)> for MarketIter<_, PublicTrade>:
\* one event per trade of the payload
MarketIter_from_BybitTrade(trade) ==
    [i \in 1..Len(trade.data) |->
        [exchange_time |-> trade.time,
         price |-> trade.data[i].price, amount |-> trade.data[i].amount]]

\* the conversion with a status event for a response
MarketIter_from_BybitMessage_status(message) ==
    IF message.variant = "Response"
    THEN <<[exchange_time |-> 0, price |-> 0, amount |-> 0]>>
    ELSE MarketIter_from_BybitTrade(message)

\* From<(ExchangeId, InstrumentId, BybitMessage<BybitTrade>)> for
\* MarketIter<_, PublicTrade>
MarketIter_from_BybitMessage(message) ==
    IF message.variant = "Response"
    THEN <<>>
    ELSE MarketIter_from_BybitTrade(message)

\* a frame of a trade connection, decoded and converted
BybitMessage_events(frame) ==
    LET m == de_BybitMessage(frame)
    IN  IF m.tag = "Err"
        THEN [tag |-> "Err", variant |-> "None", events |-> <<>>]
        ELSE [tag |-> "Ok", variant |-> m.variant,
              events |-> MarketIter_from_BybitMessage(m)]

\* ------------------------------------------------------ portfolio risk
OrderTypes == {"Market", "Limit", "Bracket"}
\* an OrderEvent: its order_type, and its quantity for every other field
OrderEvents == [quantity : {-1, 1}, order_type : OrderTypes]

\* <DefaultRisk as OrderEvaluator>::DEFAULT_ORDER_TYPE
DEFAULT_ORDER_TYPE == "Market"

\* DefaultRisk::risk_too_high
risk_too_high(order) == FALSE

NoOrder == [quantity |-> 0, order_type |-> "None"]

\* evaluate_order that hands the order back as it came
evaluate_order_unamended(order) ==
    IF risk_too_high(order)
    THEN [tag |-> "Ok", option |-> "None", order |-> NoOrder]
    ELSE [tag |-> "Ok", option |-> "Some", order |-> order]

\* DefaultRisk::evaluate_order
evaluate_order(order) ==
    IF risk_too_high(order)
    THEN [tag |-> "Ok", option |-> "None", order |-> NoOrder]
    ELSE [tag |-> "Ok", option |-> "Some",
          order |-> [order EXCEPT !.order_type = DEFAULT_ORDER_TYPE]]

\* ------------------------------------------------------------- state
VARIABLES
    updater,    \* InstrumentOrderBook.updater : BybitBookUpdater
    book,       \* InstrumentOrderBook.book : OrderBook
    pc,         \* position of the driver: "idle", "pending", "returned"
    update_in,  \* the decoded BybitBookUpdate in flight to update()
    result,     \* what update() returned for it
    pre,        \* updater, book and history as they were when update() was entered
    hist,       \* history of the calls: snapshot_accepted, rejected
    log,        \* history of the emissions and of the input sequence
    raw,        \* decoder: the raw input handed to a deserializer
    decoded,    \* decoder: what the deserializer returned for it
    subs,       \* transformer: subscription key -> InstrumentOrderBook
    inbox,      \* connection: frames delivered and not yet transformed
    outbox,     \* transformer: what the last frame produced downstream
    tpc,        \* position of the connection's driver task
    tpre,       \* subs and inbox as they were when the frame was taken
    tlog        \* history of the connection

driver_vars == <<updater, book, pc, update_in, result, pre, hist, log>>
decoder_vars == <<raw, decoded>>
conn_vars == <<subs, inbox, outbox, tpc, tpre, tlog>>
vars == <<updater, book, pc, update_in, result, pre, hist, log,
          raw, decoded, subs, inbox, outbox, tpc, tpre, tlog>>

NoUpdate == [kind |-> "none", time |-> 0, update_id |-> 0, bids |-> <<>>, asks |-> <<>>]

NoHist == [snapshot_accepted |-> FALSE, rejected |-> FALSE]

NoResult == Ret("NoCall", NoBook, NoError)

NoPre == [updater |-> BybitBookUpdater_new, book |-> NoBook, hist |-> NoHist]

\* subscription keys of the two order-book subscriptions of the connection
SubKeys == {ExchangeSub_id(Subscription_id("OrderBooksL2"), <<m>>) : m \in {"A", "B"}}

NoRaw == [fn |-> "none"]
NoDecoded == [tag |-> "NotYet"]
NoSub == [present |-> FALSE, updater |-> BybitBookUpdater_new, book |-> NoBook]
NoSubs == [k \in SubKeys |-> NoSub]
NoOut == <<>>
NoTPre == [subs |-> NoSubs, inbox |-> <<>>]
NoTLog ==
    [subscribed |-> [k \in SubKeys |-> FALSE],
     fatal |-> [k \in SubKeys |-> FALSE],
     sent |-> <<>>]

\* the single-instrument driver is not part of the run
DriverOff ==
    /\ updater = BybitBookUpdater_new
    /\ book = NoBook
    /\ pc = "off"
    /\ update_in = NoUpdate
    /\ result = NoResult
    /\ pre = NoPre
    /\ hist = NoHist

\* no deserializer is part of the run
DecoderOff == raw = NoRaw /\ decoded = NoDecoded

\* no connection is part of the run
ConnOff ==
    /\ subs = NoSubs
    /\ inbox = <<>>
    /\ outbox = NoOut
    /\ tpc = "off"
    /\ tpre = NoTPre
    /\ tlog = NoTLog

\* a side as a map price -> amount (0: no level at that price)
ToMap(P, levels) ==
    [p \in P |->
        IF HasPrice(levels, p)
        THEN (CHOOSE l \in {levels[i] : i \in 1..Len(levels)} : l.price = p).amount
        ELSE 0]

\* reference effect of a list of levels on such a map: each level sets the
\* amount at its price, in list order
RECURSIVE ApplyRef(_, _)
ApplyRef(m, input) ==
    IF input = <<>> THEN m
    ELSE ApplyRef([m EXCEPT ![Head(input).price] = Head(input).amount], Tail(input))

NonZero(input) == SelectSeq(input, LAMBDA x : x.amount # 0)

NoRef == [p \in Prices |-> 0]

\* nothing received yet: no book emitted, input sequence not started
NoLog ==
    [emitted |-> FALSE, last_emitted_id |-> 0,
     prev_emitted |-> FALSE, prev_emitted_id |-> 0,
     last_kind |-> "none", prev_kind |-> "none",
     phase |-> "fresh", u |-> 0, n |-> 0, has_one |-> FALSE,
     ref_bids |-> NoRef, ref_asks |-> NoRef,
     replayed |-> FALSE, first_book |-> NoBook, first_emitted |-> NoBook]

\* the log after update() returned ret for upd.  phase "run": the input so
\* far is a snapshot with update_id u received first after init, followed by
\* n deltas with update_ids u+1 .. u+n; has_one: one of these ids is 1;
\* ref_bids / ref_asks: the snapshot's levels with these deltas applied.
LogUpdate(lg, upd, ret) ==
    LET accepted == ret.tag = "Some"
        starts == lg.phase = "fresh" /\ upd.kind = "snapshot"
        goes_on == lg.phase = "run" /\ upd.kind = "delta"
                      /\ upd.update_id = lg.u + lg.n + 1
    IN  [emitted |-> lg.emitted \/ accepted,
         last_emitted_id |-> IF accepted THEN upd.update_id ELSE lg.last_emitted_id,
         prev_emitted |-> lg.emitted,
         prev_emitted_id |-> lg.last_emitted_id,
         last_kind |-> IF accepted THEN upd.kind ELSE lg.last_kind,
         prev_kind |-> lg.last_kind,
         phase |-> IF starts \/ goes_on THEN "run" ELSE "off",
         u |-> IF starts THEN upd.update_id ELSE IF goes_on THEN lg.u ELSE 0,
         n |-> IF goes_on THEN lg.n + 1 ELSE 0,
         has_one |-> goes_on /\ (lg.has_one \/ upd.update_id = 1),
         ref_bids |-> IF starts THEN ApplyRef(NoRef, NonZero(upd.bids))
                      ELSE IF goes_on THEN ApplyRef(lg.ref_bids, upd.bids)
                      ELSE NoRef,
         ref_asks |-> IF starts THEN ApplyRef(NoRef, NonZero(upd.asks))
                      ELSE IF goes_on THEN ApplyRef(lg.ref_asks, upd.asks)
                      ELSE NoRef,
         replayed |-> lg.replayed,
         first_book |-> lg.first_book,
         first_emitted |-> lg.first_emitted]

\* BybitBookUpdater::init: new updater, empty book stamped Utc::now()
Init ==
    /\ updater = BybitBookUpdater_new
    /\ \E now \in Times : book = OrderBook_from(DefaultSnapshot(now))
    /\ pc = "idle"
    /\ update_in = NoUpdate
    /\ result = NoResult
    /\ pre = NoPre
    /\ hist = NoHist
    /\ log = NoLog
    /\ DecoderOff
    /\ ConnOff

\* a decoded update for this instrument arrives at the driver
Recv(upd) ==
    /\ pc = "idle"
    /\ pc' = "pending"
    /\ update_in' = upd
    /\ UNCHANGED <<updater, book, result, pre, hist, log>>
    /\ UNCHANGED <<decoder_vars, conn_vars>>

\* a BybitBookUpdate::Snapshot arrives
RecvSnapshot ==
    \E id \in UpdateIds, t \in Times, b \in LevelLists, a \in LevelLists :
        Recv([kind |-> "snapshot", time |-> t, update_id |-> id, bids |-> b, asks |-> a])

\* a BybitBookUpdate::Delta arrives
RecvDelta ==
    /\ updater.updates_processed < MaxUpdates
    /\ \E id \in UpdateIds, t \in Times, b \in LevelLists, a \in LevelLists :
        Recv([kind |-> "delta", time |-> t, update_id |-> id, bids |-> b, asks |-> a])

\* one call of update(&mut self, &mut book, update_in)
Update ==
    /\ pc = "pending"
    /\ LET out == update(updater, book, update_in)
       IN  /\ updater' = out.updater
           /\ book' = out.book
           /\ result' = out.ret
           /\ hist' = IF out.ret.tag = "Err"
                      THEN [hist EXCEPT !.rejected = TRUE]
                      ELSE IF update_in.kind = "snapshot"
                           THEN [snapshot_accepted |-> TRUE, rejected |-> FALSE]
                           ELSE hist
           /\ log' = LogUpdate(log, update_in, out.ret)
    /\ pre' = [updater |-> updater, book |-> book, hist |-> hist]
    /\ pc' = "returned"
    /\ UNCHANGED update_in
    /\ UNCHANGED <<decoder_vars, conn_vars>>

\* the caller consumes the returned value (emits the book or the error)
Return ==
    /\ pc = "returned"
    /\ pc' = "idle"
    /\ update_in' = NoUpdate
    /\ result' = NoResult
    /\ pre' = NoPre
    /\ log' = [log EXCEPT !.prev_emitted = FALSE, !.prev_emitted_id = 0,
                          !.prev_kind = "none",
                          !.replayed = FALSE, !.first_book = NoBook,
                          !.first_emitted = NoBook]
    /\ UNCHANGED <<updater, book, hist>>
    /\ UNCHANGED <<decoder_vars, conn_vars>>

\* the exchange delivers the update just processed a second time (at most
\* once per update); the book and the emission of the first pass are kept
\* in the log
Replay ==
    /\ pc = "returned"
    /\ ~log.replayed
    /\ pc' = "pending"
    /\ log' = [log EXCEPT !.replayed = TRUE, !.first_book = book,
                          !.first_emitted = result.book]
    /\ result' = NoResult
    /\ pre' = NoPre
    /\ UNCHANGED <<updater, book, update_in, hist>>
    /\ UNCHANGED <<decoder_vars, conn_vars>>

Next == RecvSnapshot \/ RecvDelta \/ Update \/ Return \/ Replay

Spec == Init /\ [][Next]_vars

\* ----------------------------------- single updates on larger books
BookPrices == 1..BookMaxPrice
BookAmounts == 0..BookMaxAmount
BookLevel == [price : BookPrices, amount : BookAmounts]
BookLevelLists == SeqsUpTo(BookLevel, BookMaxLevels)

\* a side in price priority order without equal prices
StrictlySorted(side, levels) ==
    \A i \in 1..(Len(levels) - 1) : Before(side, levels[i].price, levels[i + 1].price)

NoZeroAmount(levels) == \A i \in 1..Len(levels) : levels[i].amount # 0

\* the sides a book can hold: ordered, one level per price, no zero amount
BookSides(side) ==
    {l \in BookLevelLists : StrictlySorted(side, l) /\ NoZeroAmount(l)}

\* an updater that has processed one delta, any book it can hold, and one
\* update (a snapshot or the next delta in sequence) in flight to update()
InitBook ==
    /\ updater = [updates_processed |-> 1, last_update_id |-> 2]
    /\ book \in [last_update_time : {0},
                  bids : BookSides("Buy"), asks : BookSides("Sell")]
    /\ pc = "pending"
    /\ update_in \in [kind : {"snapshot", "delta"}, time : {1}, update_id : {3},
                       bids : BookLevelLists, asks : BookLevelLists]
    /\ result = NoResult
    /\ pre = NoPre
    /\ hist = [snapshot_accepted |-> TRUE, rejected |-> FALSE]
    /\ log = [NoLog EXCEPT !.emitted = TRUE, !.last_emitted_id = 2, !.phase = "off"]
    /\ DecoderOff
    /\ ConnOff

NextBook == Update \/ Return

SpecBook == InitBook /\ [][NextBook]_vars

\* ------------------------------------------------------------ helpers
Returned == pc = "returned"
IsDelta == Returned /\ update_in.kind = "delta"
IsSnapshot == Returned /\ update_in.kind = "snapshot"
Accepted == result.tag = "Some"
Rejected == result.tag = "Err"
\* some update (snapshot or delta) had been accepted before the call
HadAccepted == pre.hist.snapshot_accepted \/ pre.updater.updates_processed > 0
\* spec 4.3: Live = a snapshot was accepted and no delta was rejected since
WasLive == pre.hist.snapshot_accepted /\ ~pre.hist.rejected
LevelSet(levels) == {levels[i] : i \in 1..Len(levels)}

\* ------------------------------------------------------------- claims

\* C1: once some update was accepted with update_id u, a following delta
\* whose update_id is not u + 1 is rejected (also the first delta that
\* follows a snapshot).
C1_OnlyNextIdAccepted ==
    (IsDelta /\ HadAccepted
        /\ update_in.update_id # pre.updater.last_update_id + 1)
    => (Rejected /\ result.error = "InvalidSequence")

\* C2: until the first snapshot has been accepted every delta is rejected,
\* the book stays empty and no book is emitted.
C2_DeltaBeforeSnapshotRejected ==
    (IsDelta /\ ~pre.hist.snapshot_accepted)
    => (Rejected /\ ~Accepted /\ book.bids = <<>> /\ book.asks = <<>>)

\* C3: after a delta was rejected with InvalidSequence, no later delta is
\* accepted (and no book emitted for it) until a snapshot was accepted.
C3_NoDeltaAcceptedAfterRejection ==
    (IsDelta /\ pre.hist.rejected) => (Rejected /\ ~Accepted)

\* C4: a delta with update_id == 1 is rejected with InvalidSequence in
\* every updater state.
C4_ReservedIdRejected ==
    (IsDelta /\ update_in.update_id = 1)
    => (Rejected /\ result.error = "InvalidSequence")

\* the reserved id arrives exactly when it would be the next sequential id
C4_Witness ==
    /\ IsDelta /\ update_in.update_id = 1 /\ Rejected
    /\ pre.updater.last_update_id = 0
    /\ pre.updater.updates_processed > 0

\* C5: a rejected delta leaves bids, asks and last_update_time of the live
\* book as they were before the call.
C5_RejectedDeltaLeavesBook ==
    (IsDelta /\ Rejected)
    => /\ book.bids = pre.book.bids
       /\ book.asks = pre.book.asks
       /\ book.last_update_time = pre.book.last_update_time

\* a rejected delta that would have changed a side and the book's time
C5_Witness ==
    /\ IsDelta /\ Rejected
    /\ apply_delta(pre.book, update_in).bids # pre.book.bids
    /\ update_in.time # pre.book.last_update_time
    /\ book.bids # <<>>

\* C6 as stated: the error of a rejected delta carries the updater's
\* last_update_id and the delta's update_id as they are, negative ids
\* included.
C6_ErrorCarriesRawIds ==
    (IsDelta /\ Rejected)
    => /\ result.prev_last_update_id = pre.updater.last_update_id
       /\ result.first_update_id = update_in.update_id

\* C6 amended: the error of a rejected delta carries both ids clamped at 0
\* (max(id, 0)); it carries the ids themselves when they are not negative.
C6_ErrorCarriesClampedIds ==
    (IsDelta /\ Rejected)
    => /\ result.error = "InvalidSequence"
       /\ result.prev_last_update_id = Max(pre.updater.last_update_id, 0)
       /\ result.first_update_id = Max(update_in.update_id, 0)

\* a rejected delta with a negative id at an updater with a negative id
C6_Witness ==
    /\ IsDelta /\ Rejected
    /\ update_in.update_id < 0
    /\ pre.updater.last_update_id < 0
    /\ result.first_update_id = 0 /\ result.prev_last_update_id = 0

\* C7: a snapshot is accepted in every updater state whatever its
\* update_id; the book becomes the snapshot's book (no previous level
\* survives unless listed), last_update_id becomes the snapshot's id and
\* the new book is returned.
C7_SnapshotAlwaysReplaces ==
    IsSnapshot
    => /\ Accepted
       /\ updater.last_update_id = update_in.update_id
       /\ book = OrderBook_from(update_in)
       /\ LevelSet(book.bids) \subseteq LevelSet(update_in.bids)
       /\ LevelSet(book.asks) \subseteq LevelSet(update_in.asks)
       /\ result.book = book

\* a snapshot with a lower id than the current one drops a previous level
C7_Witness ==
    /\ IsSnapshot /\ Accepted
    /\ update_in.update_id < pre.updater.last_update_id
    /\ pre.updater.updates_processed > 0
    /\ pre.book.bids # <<>> /\ book.bids = <<>>
    /\ book.asks # <<>>

\* C8: a snapshot accepted while the updater is Live resets
\* updates_processed to 0.
C8_SnapshotResetsUpdatesProcessed ==
    (IsSnapshot /\ WasLive /\ Accepted) => updater.updates_processed = 0

\* C9: after an accepted delta last_update_id is the delta's update_id,
\* updates_processed grew by exactly one and the returned book is the live
\* book with the delta's bids and asks applied.
C9_AcceptedDeltaEffects ==
    (IsDelta /\ Accepted)
    => /\ updater.last_update_id = update_in.update_id
       /\ updater.updates_processed = pre.updater.updates_processed + 1
       /\ book.bids = upsert("Buy", pre.book.bids, update_in.bids)
       /\ book.asks = upsert("Sell", pre.book.asks, update_in.asks)
       /\ result.book = book

\* a sequential delta (not the first) that changed both sides
C9_Witness ==
    /\ IsDelta /\ Accepted
    /\ pre.updater.updates_processed > 0
    /\ book.bids # pre.book.bids
    /\ book.asks # pre.book.asks

\* C10: an accepted delta leaves last_update_id strictly greater than it
\* was before the delta.
C10_AcceptedDeltaIncreasesId ==
    (IsDelta /\ Accepted)
    => updater.last_update_id > pre.updater.last_update_id

\* C11, for the books emitted for deltas (a snapshot is accepted with any
\* update id): a book emitted for a delta comes from an update whose
\* update_id is greater than that of the book emitted before it.
C11_EmittedDeltaIdsIncrease ==
    (IsDelta /\ Accepted /\ log.prev_emitted)
    => update_in.update_id > log.prev_emitted_id

\* the input so far is: init, a snapshot with id u, then deltas u+1 .. u+n
InRun == Returned /\ log.phase = "run"

\* the run's updates were all accepted and the book is the snapshot's
\* levels with the deltas applied in order
RunInFull ==
    /\ Accepted
    /\ result.book = book
    /\ ToMap(Prices, book.bids) = log.ref_bids
    /\ ToMap(Prices, book.asks) = log.ref_asks
    /\ updater.last_update_id = log.u + log.n
    /\ updater.updates_processed = log.n

\* C12 as stated: from init, a snapshot with update_id u followed by deltas
\* u+1 .. u+n is accepted in full, each emitted book is the snapshot's
\* levels with the deltas so far applied, last_update_id == u+n and
\* updates_processed == n.
C12_RunAcceptedInFull == InRun => RunInFull

\* C12 amended: the same, for runs in which none of u+1 .. u+n is the
\* reserved id 1.
C12_RunWithoutReservedIdInFull == (InRun /\ ~log.has_one) => RunInFull

\* a snapshot followed by two deltas, the book not empty at the end
C12_Witness ==
    /\ InRun /\ ~log.has_one /\ log.n = 2
    /\ IsDelta /\ Accepted
    /\ book.bids # <<>>
    /\ book.bids # pre.book.bids

\* C13: a delta without bids and asks that passes validation advances
\* last_update_id and update() returns None.
C13_EmptyDeltaReturnsNone ==
    (IsDelta /\ ~Rejected /\ update_in.bids = <<>> /\ update_in.asks = <<>>)
    => /\ updater.last_update_id = update_in.update_id
       /\ result.tag = "None"

\* C14: an accepted delta sets, on each side, the amount at the price of
\* each of its levels in list order (amount 0: no level; a level that was
\* absent and has amount 0 changes nothing and is no error) and leaves the
\* other prices as they were.
C14_DeltaLevelSemantics ==
    IsDelta
    => /\ Accepted
       /\ ToMap(BookPrices, book.bids)
            = ApplyRef(ToMap(BookPrices, pre.book.bids), update_in.bids)
       /\ ToMap(BookPrices, book.asks)
            = ApplyRef(ToMap(BookPrices, pre.book.asks), update_in.asks)

\* one delta with the four cases: bids remove a level and replace the amount
\* of another, asks insert a level and name an absent price with amount 0
C14_Witness ==
    /\ IsDelta /\ Accepted
    /\ Len(pre.book.bids) = 2 /\ Len(update_in.bids) = 2
    /\ update_in.bids[1].amount = 0
    /\ update_in.bids[2].amount # 0
    /\ update_in.bids[1].price # update_in.bids[2].price
    /\ ToMap(BookPrices, pre.book.bids)[update_in.bids[2].price] # update_in.bids[2].amount
    /\ pre.book.asks = <<>> /\ Len(update_in.asks) = 2
    /\ update_in.asks[1].amount # 0
    /\ update_in.asks[2].amount = 0
    /\ update_in.asks[1].price # update_in.asks[2].price
    /\ Len(book.bids) = 1 /\ Len(book.asks) = 1

\* C15: every emitted book has bids strictly descending and asks strictly
\* ascending in price, no price twice on a side.
C15_EmittedSidesStrictlySorted ==
    (Returned /\ Accepted)
    => /\ StrictlySorted("Buy", result.book.bids)
       /\ StrictlySorted("Sell", result.book.asks)

\* a snapshot whose two bids and two asks come in the opposite order
C15_Witness ==
    /\ IsSnapshot /\ Accepted
    /\ Len(update_in.bids) = 2 /\ Len(result.book.bids) = 2
    /\ update_in.bids[1].price < update_in.bids[2].price
    /\ Len(update_in.asks) = 2 /\ Len(result.book.asks) = 2
    /\ update_in.asks[1].price > update_in.asks[2].price

\* C16: no book, live or emitted, holds a level with amount 0.
C16_NoZeroAmountLevel ==
    /\ NoZeroAmount(book.bids) /\ NoZeroAmount(book.asks)
    /\ NoZeroAmount(result.book.bids) /\ NoZeroAmount(result.book.asks)

\* a snapshot that lists a zero-amount level next to a real one
C16_Witness ==
    /\ IsSnapshot /\ Accepted
    /\ \E i \in 1..Len(update_in.bids) : update_in.bids[i].amount = 0
    /\ \E i \in 1..Len(update_in.asks) : update_in.asks[i].amount = 0
    /\ book.bids # <<>>

\* C17: in an emitted book with both sides non-empty the best bid price is
\* below the best ask price.
C17_EmittedBookNotCrossed ==
    (Returned /\ Accepted /\ result.book.bids # <<>> /\ result.book.asks # <<>>)
    => result.book.bids[1].price < result.book.asks[1].price

\* C18: a snapshot applied a second time right after the first leaves the
\* same book and emits the same book.
C18_SnapshotTwiceSameBook ==
    (IsSnapshot /\ log.replayed)
    => /\ Accepted
       /\ book = log.first_book
       /\ result.book = log.first_emitted

\* the second pass of a snapshot with a level, on an updater with deltas
C18_Witness ==
    /\ IsSnapshot /\ log.replayed /\ Accepted
    /\ book.bids # <<>>
    /\ updater.updates_processed > 0

DistinctPrices(input) ==
    \A i, j \in 1..Len(input) : input[i].price = input[j].price => i = j

Permuted(input) ==
    {[i \in 1..Len(input) |-> input[f[i]]] : f \in Permutations(1..Len(input))}

\* the last level for each price, in list order
RECURSIVE LastOccurrences(_)
LastOccurrences(input) ==
    IF input = <<>> THEN <<>>
    ELSE IF HasPrice(Tail(input), Head(input).price)
         THEN LastOccurrences(Tail(input))
         ELSE <<Head(input)>> \o LastOccurrences(Tail(input))

OrderIrrelevant(side, before, input, after) ==
    /\ DistinctPrices(input)
         => \A q \in Permuted(input) : upsert(side, before, q) = after
    /\ upsert(side, before, LastOccurrences(input)) = after

\* C19: for an accepted delta, any order of a side's levels with distinct
\* prices gives the same side; with a price listed several times its last
\* level decides.
C19_DeltaLevelOrderIrrelevant ==
    (IsDelta /\ Accepted)
    => /\ OrderIrrelevant("Buy", pre.book.bids, update_in.bids, book.bids)
       /\ OrderIrrelevant("Sell", pre.book.asks, update_in.asks, book.asks)

\* bids insert two levels at distinct prices, asks name one price twice
\* with different amounts
C19_Witness ==
    /\ IsDelta /\ Accepted
    /\ pre.book.bids = <<>> /\ Len(book.bids) = 2
    /\ Len(update_in.asks) = 2
    /\ update_in.asks[1].price = update_in.asks[2].price
    /\ update_in.asks[1].amount # update_in.asks[2].amount
    /\ update_in.asks[1].amount # 0
    /\ ToMap(BookPrices, book.asks)[update_in.asks[2].price] = update_in.asks[2].amount

\* C20: with updates_processed == 0 a delta whose update_id is not 1 passes
\* validation whatever last_update_id is.
C20_FirstDeltaPassesValidation ==
    (IsDelta /\ pre.updater.updates_processed = 0 /\ update_in.update_id # 1)
    => (~Rejected /\ result.error = "Ok")

\* a first delta that is not the next id after a snapshot's id
C20_Witness ==
    /\ IsDelta /\ ~Rejected
    /\ pre.updater.updates_processed = 0
    /\ pre.updater.last_update_id = 3
    /\ update_in.update_id = 0

\* ------------------------------------------- deserializers, one input each
OkxLevel == [price : BookPrices, amount : 1..BookMaxAmount,
             deprecated : {0}, no_orders : {1}]
OkxLevelLists == SeqsUpTo(OkxLevel, BookMaxLevels)
OkxOrderBookInner == [bids : OkxLevelLists, asks : OkxLevelLists, ts : {1}]
\* most books in the data array of one OKX message
MaxOkxBooks == 1

\* a book frame as received: topic, type tag, ts and data, and which of its
\* two strings are written with an escape sequence
BookFrames(topics, ids, sides) ==
    [topic : topics, type : TypeTags, escaped : SUBSET {"topic", "type"},
     time : {1}, update_id : ids, bids : sides, asks : {<<>>}]

RawInputs ==
    [fn : {"topic"}, topic : Topics \cup ExtraSegmentTopics,
     escaped : SUBSET {"topic"}]
    \cup [fn : {"book"}, frame : BookFrames(Topics, {2}, {<<>>})]
    \cup [fn : {"okx_arg"},
          arg : [channel : OkxTexts, inst_id : OkxTexts,
                 escaped : SUBSET {"channel", "inst_id"}]]
    \cup [fn : {"ob_l2"}, market : {<<"A">>, <<"B">>, <<"A", ".", "B">>},
          escaped : SUBSET {"market"}]
    \cup [fn : {"okx_l1"}, data : SeqsUpTo(OkxOrderBookInner, MaxOkxBooks)]
    \cup [fn : {"bybit_msg"}, frame : MessageFrames]
    \cup [fn : {"level"}, pair : [price : NumberTexts, amount : NumberTexts]]
    \cup [fn : {"order"}, order : OrderEvents]

InitDecode ==
    /\ raw \in RawInputs
    /\ decoded = NoDecoded
    /\ DriverOff
    /\ log = NoLog
    /\ ConnOff

Decode(fn, value) ==
    /\ raw.fn = fn
    /\ decoded.tag = "NotYet"
    /\ decoded' = value
    /\ UNCHANGED <<raw, driver_vars, conn_vars>>

DecodeTopic == Decode("topic", de_message_subscription_id(Field(raw, "topic")))
DecodeBookUpdate == Decode("book", de_BybitBookUpdate(raw.frame))
DecodeOkxArg == Decode("okx_arg", de_okx_message_arg_as_subscription_id(raw.arg))
DecodeObL2Market == Decode("ob_l2", de_ob_l2_subscription_id(Field(raw, "market")))
OkxIntoL1 == Decode("okx_l1", OkxOrderBookL1_from(raw.data))
DecodeBybitMessage == Decode("bybit_msg", BybitMessage_events(raw.frame))
DecodeLevel == Decode("level", de_BybitLevel(raw.pair))
EvaluateOrder == Decode("order", evaluate_order(raw.order))

NextDecode ==
    \/ DecodeTopic \/ DecodeBookUpdate \/ DecodeOkxArg \/ DecodeObL2Market \/ OkxIntoL1
    \/ DecodeBybitMessage \/ DecodeLevel \/ EvaluateOrder

SpecDecode == InitDecode /\ [][NextDecode]_vars

Done(fn) == raw.fn = fn /\ decoded.tag # "NotYet"

Dots(s) == {i \in 1..Len(s) : s[i] = "."}
\* the topic up to its first "."
LeadingChannel(s) ==
    IF Dots(s) = {} THEN s
    ELSE SubSeq(s, 1, (CHOOSE i \in Dots(s) : \A j \in Dots(s) : i <= j) - 1)
\* the text after the first n atoms
After(s, n) == SubSeq(s, n + 1, Len(s))
TheDot(s) == CHOOSE i \in Dots(s) : TRUE

\* the topic is orderbook.<levels>.<market>, no "." in levels or market
IsOrderbookTopic(t) ==
    /\ Len(t) >= 3 /\ t[1] = "orderbook" /\ t[2] = "."
    /\ Cardinality(Dots(After(t, 2))) = 1
\* the topic is publicTrade.<market>, no "." in market
IsTradeTopic(t) ==
    /\ Len(t) >= 2 /\ t[1] = "publicTrade" /\ t[2] = "."
    /\ Dots(After(t, 2)) = {}
\* orderbook.<levels>|<market> for the topic orderbook.<levels>.<market>
OrderbookKey(t) ==
    [i \in 1..Len(t) |-> IF i = 2 + TheDot(After(t, 2)) THEN "|" ELSE t[i]]

\* C21: the topic orderbook.<levels>.<market> gives the key
\* orderbook.<levels>|<market>, the topic publicTrade.<market> gives
\* publicTrade|<market>; a topic of one segment and a topic with another
\* leading channel name give a decode error and no key.
C21_BybitKeyDerivation ==
    Done("topic")
    => /\ IsOrderbookTopic(raw.topic) => decoded = OkKey(OrderbookKey(raw.topic))
       /\ IsTradeTopic(raw.topic)
            => decoded = OkKey(<<"publicTrade", "|">> \o After(raw.topic, 2))
       /\ Dots(raw.topic) = {} => decoded = DecodeError
       /\ LeadingChannel(raw.topic) \notin {<<"orderbook">>, <<"publicTrade">>}
            => decoded = DecodeError

\* C22: a book frame decodes to the Snapshot variant exactly when its type
\* tag is "snapshot" and to the Delta variant exactly when it is "delta";
\* any other tag is a decode error; a decoded update passes validate_type
\* for its own variant.
C22_VariantFollowsTypeTag ==
    Done("book")
    => /\ decoded.tag = "Ok"
            => /\ decoded.variant = "Snapshot" <=> raw.frame.type = "snapshot"
               /\ decoded.variant = "Delta" <=> raw.frame.type = "delta"
               /\ payload_validate_type(decoded)
       /\ raw.frame.type \notin {"snapshot", "delta"} => decoded.tag = "Err"
       /\ (IsOrderbookTopic(raw.frame.topic) /\ raw.frame.type \in {"snapshot", "delta"})
            => decoded.tag = "Ok"

\* C23: the OKX arg {channel: c, instId: i} decodes to the key c|i.
C23_OkxKeyDerivation ==
    Done("okx_arg")
    => LET c == raw.arg.channel
           i == raw.arg.inst_id
           k == decoded.key
       IN  /\ decoded.tag = "Ok"
           /\ Len(k) = Len(c) + 1 + Len(i)
           /\ SubSeq(k, 1, Len(c)) = c
           /\ k[Len(c) + 1] = "|"
           /\ After(k, Len(c) + 1) = i

PricesOf(levels) == {levels[i].price : i \in 1..Len(levels)}

\* C24: for a book with several levels per side the L1 event has the
\* highest-priced bid as best_bid and the lowest-priced ask as best_ask,
\* in whatever order the levels are listed.
C24_L1BestOfSeveralLevels ==
    Done("okx_l1")
    => \A i \in 1..Len(raw.data) :
          (Len(raw.data[i].bids) > 1 /\ Len(raw.data[i].asks) > 1)
          => /\ decoded.tag = "Ok"
             /\ \A p \in PricesOf(raw.data[i].bids) :
                    decoded.events[i].best_bid.price >= p
             /\ \A p \in PricesOf(raw.data[i].asks) :
                    decoded.events[i].best_ask.price <= p

\* C25: a book message with an empty bid side or an empty ask side gives
\* the zero level (price 0, amount 0) for that side and no panic.
C25_L1EmptySideGivesZeroLevel ==
    Done("okx_l1")
    => \A i \in 1..Len(raw.data) :
          /\ decoded.tag = "Ok"
          /\ raw.data[i].bids = <<>>
               => decoded.events[i].best_bid = [price |-> 0, amount |-> 0]
          /\ raw.data[i].asks = <<>>
               => decoded.events[i].best_ask = [price |-> 0, amount |-> 0]

\* ---------------------------------- one connection, two subscriptions
\* most frames delivered and not yet transformed
MaxInbox == 2
\* largest update id of a frame on the connection
ConnMaxId == 2

TopicOf(market) == Subscription_id("OrderBooksL2") \o <<".", market>>
OneLevel == <<[price |-> 1, amount |-> 1]>>

\* frames of the two subscriptions, a frame of a topic nobody subscribed to,
\* a frame with a topic of one segment, a frame with an unknown type tag,
\* and a snapshot whose topic or type tag is written with an escape sequence
ConnFrames ==
    [topic : {TopicOf("A"), TopicOf("B")}, type : {"snapshot", "delta"},
     escaped : {{}},
     time : {1}, update_id : 1..ConnMaxId, bids : {<<>>, OneLevel}, asks : {<<>>}]
    \cup [topic : {TopicOf("C"), <<"orderbook">>}, type : {"snapshot"},
          escaped : {{}},
          time : {1}, update_id : {ConnMaxId}, bids : {OneLevel}, asks : {<<>>}]
    \cup [topic : {TopicOf("A")}, type : {""},
          escaped : {{}},
          time : {1}, update_id : {ConnMaxId}, bids : {OneLevel}, asks : {<<>>}]
    \cup [topic : {TopicOf("A")}, type : {"snapshot"},
          escaped : {{"topic"}, {"type"}},
          time : {1}, update_id : {ConnMaxId}, bids : {OneLevel}, asks : {<<>>}]

\* BybitBookUpdater::init that asks the exchange for a snapshot
init_requests_snapshot(now) ==
    [updater |-> BybitBookUpdater_new,
     book |-> OrderBook_from(DefaultSnapshot(now)),
     sent |-> <<"request_snapshot">>]

\* BybitBookUpdater::init: the sender is not used
init(now) ==
    [updater |-> BybitBookUpdater_new,
     book |-> OrderBook_from(DefaultSnapshot(now)),
     sent |-> <<>>]

\* Identifier::id that names the first subscription whatever the payload
BybitBookUpdate_id_fixed(d) == ExchangeSub_id(Subscription_id("OrderBooksL2"), <<"A">>)

\* Identifier<Option<SubscriptionId>> for BybitBookUpdate
BybitBookUpdate_id(d) == d.payload.subscription_id

Item(tag, key, update_id, b, error) ==
    [tag |-> tag, key |-> key, update_id |-> update_id, book |-> b, error |-> error]

ErrorItem(key, update_id, error) == Item("Err", key, update_id, NoBook, error)

\* update() reported the reserved update id
IsFatal(ret) == ret.tag = "Err" /\ ret.first_update_id = 1

\* MultiBookTransformer::transform: decode, look the key up, dispatch to the
\* updater, emit the book or the error; a fatal error ends the subscription
transform(ss, frame) ==
    LET d == de_BybitBookUpdate(frame)
    IN  IF d.tag = "Err"
        THEN [subs |-> ss, out |-> <<ErrorItem(<<>>, 0, "DecodeError")>>]
        ELSE
        LET key == BybitBookUpdate_id(d)
            id == d.payload.update_id
        IN  IF key \notin DOMAIN ss \/ ~ss[key].present
            THEN [subs |-> ss, out |-> <<ErrorItem(key, id, "UnknownSubscription")>>]
            ELSE
            LET r == update(ss[key].updater, ss[key].book, AsUpdate(d))
            IN  IF IsFatal(r.ret)
                THEN [subs |-> [ss EXCEPT ![key] = NoSub],
                      out |-> <<ErrorItem(key, id, r.ret.error)>>]
                ELSE IF r.ret.tag = "Err"
                THEN [subs |-> ss, out |-> <<ErrorItem(key, id, r.ret.error)>>]
                ELSE [subs |-> [ss EXCEPT ![key] =
                                  [present |-> TRUE, updater |-> r.updater, book |-> r.book]],
                      out |-> IF r.ret.tag = "Some"
                              THEN <<Item("Book", key, id, r.ret.book, "Ok")>>
                              ELSE <<>>]

\* transport recv(): the oldest frame not yet handed over
next_frame(frames) == [frame |-> Head(frames), rest |-> Tail(frames)]

\* the driver after a frame: the items go downstream, the connection stays up
after_frame(o) == "emitted"

\* the delta with the reserved id reached a live subscription
FatalFor(ss, frame, k) ==
    LET d == de_BybitBookUpdate(frame)
    IN  /\ d.tag = "Ok" /\ d.variant = "Delta" /\ d.payload.update_id = 1
        /\ d.payload.subscription_id = k
        /\ ss[k].present

InitConn ==
    /\ subs = NoSubs
    /\ inbox = <<>>
    /\ outbox = NoOut
    /\ tpc = "idle"
    /\ tpre = NoTPre
    /\ tlog = NoTLog
    /\ DriverOff
    /\ log = NoLog
    /\ DecoderOff

\* the transformer is built: init() is called for a subscription
Subscribe ==
    /\ tpc = "idle"
    /\ inbox = <<>>
    /\ \E k \in SubKeys, now \in Times :
         /\ ~tlog.subscribed[k]
         /\ LET i == init(now)
            IN  /\ subs' = [subs EXCEPT ![k] =
                              [present |-> TRUE, updater |-> i.updater, book |-> i.book]]
                /\ tlog' = [tlog EXCEPT !.subscribed[k] = TRUE,
                                        !.sent = tlog.sent \o i.sent]
                /\ outbox' = <<Item("Subscribed", k, 0, NoBook, "Ok")>>
    /\ tpre' = [subs |-> subs, inbox |-> inbox]
    /\ tpc' = "emitted"
    /\ UNCHANGED <<inbox, driver_vars, decoder_vars>>

\* the exchange delivers a frame
Deliver ==
    /\ tpc = "idle"
    /\ Len(inbox) < MaxInbox
    /\ \E frame \in ConnFrames :
         /\ \A k \in SubKeys :
               (/\ frame.type = "delta"
                /\ de_message_subscription_id(Field(frame, "topic")).key = k)
               => subs[k].updater.updates_processed
                    + Len(SelectSeq(inbox, LAMBDA f : f.topic = frame.topic)) < MaxUpdates
         /\ inbox' = Append(inbox, frame)
    /\ UNCHANGED <<subs, outbox, tpc, tpre, tlog, driver_vars, decoder_vars>>

\* the driver takes a frame and transforms it
Transform ==
    /\ tpc = "idle"
    /\ inbox # <<>>
    /\ LET n == next_frame(inbox)
           r == transform(subs, n.frame)
       IN  /\ subs' = r.subs
           /\ outbox' = r.out
           /\ inbox' = n.rest
           /\ tpc' = after_frame(r.out)
           /\ tlog' = [tlog EXCEPT !.fatal =
                         [k \in SubKeys |-> tlog.fatal[k] \/ FatalFor(subs, n.frame, k)]]
    /\ tpre' = [subs |-> subs, inbox |-> inbox]
    /\ UNCHANGED <<driver_vars, decoder_vars>>

\* the consumer takes what the frame produced
Consume ==
    /\ tpc = "emitted"
    /\ tpc' = "idle"
    /\ outbox' = NoOut
    /\ tpre' = NoTPre
    /\ UNCHANGED <<subs, inbox, tlog, driver_vars, decoder_vars>>

\* the transport reports a disconnect: the driver task exits
Disconnect ==
    /\ tpc = "idle"
    /\ tpc' = "closed"
    /\ outbox' = <<ErrorItem(<<>>, 0, "Disconnected")>>
    /\ UNCHANGED <<subs, inbox, tpre, tlog, driver_vars, decoder_vars>>

NextConn == Subscribe \/ Deliver \/ Transform \/ Consume \/ Disconnect

SpecConn == InitConn /\ [][NextConn]_vars

\* a frame was taken from the inbox and transformed
Transformed == tpre.inbox # <<>>
\* the oldest frame that was waiting when the driver took one
OldestFrame == Head(tpre.inbox)
BookItemFor(k) ==
    \E i \in 1..Len(outbox) : outbox[i].tag = "Book" /\ outbox[i].key = k
\* the key a frame's topic stands for, <<>> when the topic gives none
FrameKey(f) ==
    IF IsOrderbookTopic(f.topic) /\ "topic" \notin f.escaped
    THEN OrderbookKey(f.topic)
    ELSE <<>>
FailsToDecode(f) ==
    \/ f.type \notin {"snapshot", "delta"}
    \/ ~IsOrderbookTopic(f.topic)
    \/ f.escaped # {}
UnknownKey(ss, f) ==
    /\ ~FailsToDecode(f)
    /\ FrameKey(f) \notin SubKeys \/ ~ss[FrameKey(f)].present
\* what update() makes of frame f for the subscription it names
UpdateOf(ss, f) ==
    update(ss[FrameKey(f)].updater, ss[FrameKey(f)].book,
           [kind |-> f.type, time |-> f.time, update_id |-> f.update_id,
            bids |-> f.bids, asks |-> f.asks])

\* C26: once a delta with update_id 1 was received for a subscription, no
\* book is emitted for it any more and it is no longer in the map, while a
\* frame of another subscription is applied and emitted as update() says.
C26_FatalEndsSubscriptionOnly ==
    /\ \A k \in SubKeys : tlog.fatal[k] => (~BookItemFor(k) /\ ~subs[k].present)
    /\ Transformed
       => \A k \in SubKeys :
             (/\ FrameKey(OldestFrame) = k
              /\ ~FailsToDecode(OldestFrame)
              /\ tpre.subs[k].present
              /\ ~(OldestFrame.type = "delta" /\ OldestFrame.update_id = 1)
              /\ \E j \in SubKeys \ {k} : tlog.fatal[j])
             => LET r == UpdateOf(tpre.subs, OldestFrame)
                IN  /\ tpc = "emitted"
                    /\ subs[k].present
                    /\ subs[k].updater = r.updater
                    /\ subs[k].book = r.book
                    /\ r.ret.tag = "Some" <=> BookItemFor(k)

\* after the fatal delta of one subscription a frame of the other one is
\* accepted and its book emitted
C26_Witness ==
    /\ Transformed
    /\ \E j, k \in SubKeys :
         /\ j # k
         /\ tlog.fatal[j] /\ tlog.subscribed[j] /\ ~subs[j].present
         /\ FrameKey(OldestFrame) = k
         /\ BookItemFor(k)
         /\ subs[k].book.bids # <<>>

\* C27: a frame that fails to decode, or whose key is not in the map,
\* produces one in-band error, changes no book and no updater, and the
\* driver goes on with the frames that follow.
C27_BadFrameIsDroppedInBand ==
    (Transformed /\ (FailsToDecode(OldestFrame) \/ UnknownKey(tpre.subs, OldestFrame)))
    => /\ Len(outbox) = 1
       /\ outbox[1].tag = "Err"
       /\ outbox[1].error =
            IF FailsToDecode(OldestFrame) THEN "DecodeError" ELSE "UnknownSubscription"
       /\ subs = tpre.subs
       /\ inbox = Tail(tpre.inbox)
       /\ tpc = "emitted"

\* a frame with an unknown type tag was dropped while a book with a level
\* is live and another frame waits
C27_Witness ==
    /\ Transformed
    /\ OldestFrame.type = ""
    /\ outbox[1].error = "DecodeError"
    /\ inbox # <<>>
    /\ \E k \in SubKeys : subs[k].present /\ subs[k].book.bids # <<>>

\* C28: what a frame produces is emitted before the next frame is taken,
\* frames are taken oldest first, and a frame for key K changes K's book
\* and updater only.
C28_DeliveryOrderAndIsolation ==
    Transformed
    => /\ inbox = Tail(tpre.inbox)
       /\ \A i \in 1..Len(outbox) :
             outbox[i].tag = "Book"
             => /\ outbox[i].key = FrameKey(OldestFrame)
                /\ outbox[i].update_id = OldestFrame.update_id
       /\ \A k \in SubKeys :
             k # FrameKey(OldestFrame) => subs[k] = tpre.subs[k]

\* two frames of different subscriptions waited; the older one was applied
\* and emitted, the other subscription's book has a level and is untouched
C28_Witness ==
    /\ Transformed
    /\ Len(tpre.inbox) = 2
    /\ FrameKey(tpre.inbox[1]) # FrameKey(tpre.inbox[2])
    /\ FrameKey(tpre.inbox[2]) \in SubKeys
    /\ BookItemFor(FrameKey(OldestFrame))
    /\ subs[FrameKey(OldestFrame)] # tpre.subs[FrameKey(OldestFrame)]
    /\ subs[FrameKey(tpre.inbox[2])].book.bids # <<>>

JustSubscribed == outbox # <<>> /\ outbox[1].tag = "Subscribed"

\* C30: init returns an empty book and an updater with updates_processed
\* and last_update_id 0, and sends nothing on the transport sender.
C30_InitIsEmptyAndSilent ==
    /\ JustSubscribed
       => LET s == subs[outbox[1].key]
          IN  /\ s.present
              /\ s.book.bids = <<>> /\ s.book.asks = <<>>
              /\ s.updater.updates_processed = 0
              /\ s.updater.last_update_id = 0
    /\ tlog.sent = <<>>

\* the second subscription was initialised after the first one
C30_Witness ==
    /\ JustSubscribed
    /\ \A k \in SubKeys : tlog.subscribed[k]
    /\ ~tpre.subs[outbox[1].key].present

\* ------------------------------------------------ claims C31 to C39
\* C31: a Bybit frame that decodes as a Response (acknowledgement, pong,
\* error) produces no market event: the list of events is empty.
C31_ResponseGivesNoEvent ==
    (Done("bybit_msg") /\ raw.frame.shape = "response")
    => /\ decoded.tag = "Ok"
       /\ decoded.variant = "Response"
       /\ decoded.events = <<>>

\* a pong was decoded as a Response and converted to no event
C31_Witness ==
    /\ Done("bybit_msg")
    /\ raw.frame.shape = "response"
    /\ raw.frame.ret_msg = "pong"
    /\ decoded.variant = "Response"
    /\ Len(decoded.events) = 0

\* C32: after accepted snapshots and deltas each side of the book holds at
\* most D levels, D the depth of the subscribed channel; here for updates
\* that themselves carry at most D levels per side, applied to a book
\* within the depth.
C32_SidesWithinChannelDepth ==
    \A ch \in {BybitChannel_ORDER_BOOK_L1, BybitChannel_ORDER_BOOK_L2} :
        (/\ Returned /\ Accepted
         /\ Len(pre.book.bids) <= Depth(ch) /\ Len(pre.book.asks) <= Depth(ch)
         /\ Len(update_in.bids) <= Depth(ch) /\ Len(update_in.asks) <= Depth(ch))
        => (Len(book.bids) <= Depth(ch) /\ Len(book.asks) <= Depth(ch))

\* C33: a level whose price or amount is negative or not a number is
\* rejected as a decode error.
C33_NegativeOrNaNLevelRejected ==
    (Done("level") /\ {raw.pair.price, raw.pair.amount} \cap {"-1", "NaN"} # {})
    => decoded.tag = "Err"

\* C34: a Bybit OrderBooksL2 subscription uses the depth-1 channel
\* orderbook.1: the key it is registered under starts with that channel.
C34_OrderBooksL2UsesDepthOne ==
    \A k \in SubKeys :
        subs[k].present => SubSeq(k, 1, 3) = <<"orderbook", ".", "1">>

\* C35: evaluate_order never returns an error; it returns None when the
\* risk of the order is too high, and otherwise the order with order_type
\* Market and every other field as it came.
C35_EvaluateOrderAmendsOrderType ==
    Done("order")
    => /\ decoded.tag = "Ok"
       /\ risk_too_high(raw.order) => decoded.option = "None"
       /\ ~risk_too_high(raw.order)
            => /\ decoded.option = "Some"
               /\ decoded.order.order_type = "Market"
               /\ decoded.order.quantity = raw.order.quantity

\* a limit order to sell came back as a market order to sell
C35_Witness ==
    /\ Done("order")
    /\ raw.order = [quantity |-> -1, order_type |-> "Limit"]
    /\ decoded.option = "Some"
    /\ decoded.order = [quantity |-> -1, order_type |-> "Market"]

\* C36: once the updater has accepted a delta (updates_processed > 0), an
\* accepted delta has the update_id of the accepted update just before it,
\* snapshot or delta, plus 1; last_update_id is the id of the last accepted
\* update, also after a snapshot that re-seeds the book.
C36_SequencedAcrossReseeds ==
    /\ log.emitted => updater.last_update_id = log.last_emitted_id
    /\ (IsDelta /\ Accepted /\ pre.updater.updates_processed > 0)
       => /\ log.prev_kind \in {"snapshot", "delta"}
          /\ update_in.update_id = log.prev_emitted_id + 1
          /\ pre.updater.last_update_id = log.prev_emitted_id

\* a delta, then a snapshot that re-seeds the book with a smaller id, then
\* the delta that follows the snapshot
C36_Witness ==
    /\ IsDelta /\ Accepted
    /\ pre.updater.updates_processed > 0
    /\ log.prev_kind = "snapshot"
    /\ update_in.update_id = log.prev_emitted_id + 1
    /\ log.prev_emitted_id < 3

\* updates that may come next, told apart by kind and update_id
NextUpdates ==
    [kind : {"snapshot", "delta"}, time : {1}, update_id : UpdateIds,
     bids : {<<>>}, asks : {<<>>}]

\* C37: when update() returns an error, last_update_id and
\* updates_processed are as they were before the call, and the updater
\* accepts exactly the updates it would have accepted before it.
C37_RejectionLeavesUpdater ==
    (Returned /\ Rejected)
    => /\ updater.last_update_id = pre.updater.last_update_id
       /\ updater.updates_processed = pre.updater.updates_processed
       /\ \A upd \in NextUpdates :
             update(updater, book, upd).ret.tag
                = update(pre.updater, pre.book, upd).ret.tag

\* a delta was rejected for a gap; the delta that follows the last
\* accepted id is still accepted
C37_Witness ==
    /\ IsDelta /\ Rejected
    /\ pre.updater.updates_processed > 0
    /\ pre.updater.last_update_id = 1
    /\ update_in.update_id = 0
    /\ update(updater, book, [kind |-> "delta", time |-> 1, update_id |-> 2,
                              bids |-> <<>>, asks |-> <<>>]).ret.tag = "Some"

\* the key an OrderBooksL2 subscription for a market is registered under
RegisteredKey(market) == ExchangeSub_id(Subscription_id("OrderBooksL2"), <<market>>)

\* C38: a book frame with the topic <ORDER_BOOK_L2 channel>.<market> is
\* decoded to the key <ORDER_BOOK_L2 channel>|<market> of the subscription
\* for that market, and is never answered with an unknown subscription
\* while that subscription is in the map.
C38_ChannelFramesFindTheirSubscription ==
    Transformed
    => \A m \in {"A", "B"} :
          (/\ OldestFrame.topic = Subscription_id("OrderBooksL2") \o <<".", m>>
           /\ OldestFrame.type \in {"snapshot", "delta"}
           /\ tpre.subs[RegisteredKey(m)].present)
          => /\ Len(outbox) = 1
             /\ outbox[1].key = RegisteredKey(m)
             /\ outbox[1].error \notin {"UnknownSubscription", "DecodeError"}

\* C39: key derivation is injective on the topics it accepts: no other
\* topic decodes to the key of an accepted topic, in particular not a topic
\* that has more segments.
C39_KeyDerivationInjective ==
    (Done("topic") /\ decoded.tag = "Ok")
    => \A t \in Topics \cup ExtraSegmentTopics :
          t # raw.topic => de_message_subscription_id(JsonString(t, FALSE)) # decoded

====
